---- MODULE Spec2Model ----
(***************************************************************************)
(* Email litigation risk analyzer: the pattern catalog (_compile_patterns, *)
(* _PATTERNS), RiskPattern.match and analyze_email of                      *)
(* email_litigation_analyzer.py, and the calls the /analyze endpoint makes *)
(* to it.                                                                  *)
(*                                                                         *)
(* Python str values are TLA+ strings; offsets are 0-indexed with the end  *)
(* exclusive, as in the source.  A regular expression is a sequence of     *)
(* items (literal, \b, \s+ or \s*, \d{n}, non-capturing group of           *)
(* alternatives) matched with re's backtracking priority.                  *)
(***************************************************************************)
EXTENDS Integers, Sequences, FiniteSets, TLC

VARIABLES
    _PATTERNS,         \* module-level catalog, shared by every call
    pc,                \* per call: "idle", "loop" or "done"
    email,             \* per call: the dict passed to analyze_email
    combined_text,     \* per call: f"{subject}\n{body}"
    idx,               \* per call: position of `for pattern in _PATTERNS`
    matches,           \* per call: what pattern.match last returned
    categories_found,  \* per call
    snippets,          \* per call
    flag_count,        \* per call
    result             \* per call: the dict analyze_email returned

vars == <<_PATTERNS, pc, email, combined_text, idx, matches,
          categories_found, snippets, flag_count, result>>

-----------------------------------------------------------------------------
(* Bounds of the model and constants of the program *)

MaxFrags == 2          \* a body is at most this many fragments long
NumCalls == 2          \* calls that may be in flight together

SnippetContext == 40   \* characters of context kept on each side of a match
SnippetMax == 200      \* longest snippet emitted unshortened

Calls == 1..NumCalls

Max(a, b) == IF a >= b THEN a ELSE b
Min(a, b) == IF a <= b THEN a ELSE b

-----------------------------------------------------------------------------
(* Python str *)

CharAt(s, i) == SubSeq(s, i + 1, i + 1)      \* s[i], 0 <= i < len(s)

\* s[a:b] with Python's handling of negative and out-of-range bounds
SliceBound(s, i) == IF i < 0 THEN Max(0, Len(s) + i) ELSE Min(i, Len(s))
Slice(s, a, b) == SubSeq(s, SliceBound(s, a) + 1, SliceBound(s, b))

UpperCase == "ABCDEFGHIJKLMNOPQRSTUVWXYZ"
LowerCase == "abcdefghijklmnopqrstuvwxyz"
DigitChars == "0123456789"
SpaceChars == " \t\n\r"

Chars(s) == {CharAt(s, i) : i \in 0..(Len(s) - 1)}

SpaceSet == Chars(SpaceChars)
DigitSet == Chars(DigitChars)
WordSet == Chars(UpperCase) \cup Chars(LowerCase) \cup Chars(DigitChars) \cup {"_"}

IsSpace(c) == c \in SpaceSet      \* \s, str.isspace
IsDigit(c) == c \in DigitSet      \* \d
IsWord(c) == c \in WordSet        \* \w

Fold == [c \in Chars(UpperCase) |->
            CharAt(LowerCase, (CHOOSE i \in 0..25 : CharAt(UpperCase, i) = c))]
LowerChar(c) == IF c \in DOMAIN Fold THEN Fold[c] ELSE c

RECURSIVE Lower(_)
Lower(s) ==
    IF Len(s) = 0 THEN ""
    ELSE IF Len(s) = 1 THEN LowerChar(s)
    ELSE LET h == Len(s) \div 2
         IN Lower(SubSeq(s, 1, h)) \o Lower(SubSeq(s, h + 1, Len(s)))

\* str.strip()
Strip(s) ==
    LET keep == {i \in 1..Len(s) : ~IsSpace(SubSeq(s, i, i))}
    IN IF keep = {} THEN ""
       ELSE SubSeq(s, CHOOSE i \in keep : \A j \in keep : i <= j,
                      CHOOSE i \in keep : \A j \in keep : i >= j)

\* sep.join(parts)
RECURSIVE Join(_, _)
Join(sep, parts) ==
    IF parts = <<>> THEN ""
    ELSE IF Len(parts) = 1 THEN parts[1]
    ELSE parts[1] \o sep \o Join(sep, Tail(parts))

\* the characters of the model in code point order: Python orders str by it
CodePoints == "\t\n\r !'-0123456789;ABCDEFGHIJKLMNOPQRSTUVWXYZ[]_abcdefghijklmnopqrstuvwxyz~"
Ord(c) == CHOOSE i \in 1..Len(CodePoints) : SubSeq(CodePoints, i, i) = c

RECURSIVE StrLess(_, _)
StrLess(a, b) ==
    IF Len(b) = 0 THEN FALSE
    ELSE IF Len(a) = 0 THEN TRUE
    ELSE IF Head(a) = Head(b) THEN StrLess(Tail(a), Tail(b))
    ELSE Ord(Head(a)) < Ord(Head(b))

\* sorted(S) of a set of str
RECURSIVE Sorted(_)
Sorted(S) ==
    IF S = {} THEN <<>>
    ELSE LET m == CHOOSE x \in S : \A y \in S \ {x} : StrLess(x, y)
         IN <<m>> \o Sorted(S \ {m})

ToSet(seq) == {seq[i] : i \in 1..Len(seq)}

\* the one character U+2026 appended to a shortened snippet, written "~"
Ellipsis == "~"

-----------------------------------------------------------------------------
(* Regular expressions: re.compile(r, re.IGNORECASE) and finditer *)

Lit(s) == [t |-> "lit", s |-> s, n |-> 0, alts |-> <<>>]          \* literal text
WordBoundary == [t |-> "b", s |-> "", n |-> 0, alts |-> <<>>]     \* \b
Space(min) == [t |-> "ws", s |-> "", n |-> min, alts |-> <<>>]    \* \s+ (1), \s* (0)
Digits(n) == [t |-> "dig", s |-> "", n |-> n, alts |-> <<>>]      \* \d{n}
Group(alts) == [t |-> "alt", s |-> "", n |-> 0, alts |-> alts]    \* (?:a|b|c)

\* \b at offset pos: exactly one of the characters around pos is a word character
AtBoundary(t, pos) ==
    LET before == pos > 0 /\ IsWord(CharAt(t, pos - 1))
        after == pos < Len(t) /\ IsWord(CharAt(t, pos))
    IN before # after

\* length of the run of whitespace starting at offset pos
SpaceRun(t, pos) ==
    LET stop == {j \in pos..(Len(t) - 1) : ~IsSpace(CharAt(t, j))}
    IN IF stop = {} THEN Len(t) - pos
       ELSE (CHOOSE j \in stop : \A k \in stop : j <= k) - pos

RECURSIVE FlatDesc(_, _)
FlatDesc(f, S) ==
    IF S = {} THEN <<>>
    ELSE LET k == CHOOSE x \in S : \A y \in S : x >= y
         IN f[k] \o FlatDesc(f, S \ {k})

\* re.compile(items, re.IGNORECASE): the literals are case-folded
RECURSIVE Compile(_)
Compile(items) ==
    [i \in 1..Len(items) |->
        CASE items[i].t = "lit" -> Lit(Lower(items[i].s))
          [] items[i].t = "alt" ->
               Group([a \in 1..Len(items[i].alts) |-> Compile(items[i].alts[a])])
          [] OTHER -> items[i]]

\* The offsets at which items[i..] of a compiled regex can end when matched
\* at pos of the case-folded text t, in the order the backtracking matcher
\* tries them: the head is the match re reports.
RECURSIVE MatchFrom(_, _, _, _), GroupTry(_, _, _, _, _), EndsTry(_, _, _, _, _)
MatchFrom(items, i, t, pos) ==
    IF i > Len(items) THEN <<pos>>
    ELSE LET it == items[i] IN
      CASE it.t = "lit" ->
             IF /\ pos + Len(it.s) <= Len(t)
                /\ Slice(t, pos, pos + Len(it.s)) = it.s
             THEN MatchFrom(items, i + 1, t, pos + Len(it.s))
             ELSE <<>>
        [] it.t = "b" ->
             IF AtBoundary(t, pos) THEN MatchFrom(items, i + 1, t, pos) ELSE <<>>
        [] it.t = "ws" ->
             \* greedy: the longest run first, then shorter ones
             LET run == SpaceRun(t, pos)
                 rest == [k \in it.n..run |-> MatchFrom(items, i + 1, t, pos + k)]
             IN FlatDesc(rest, {k \in it.n..run : rest[k] # <<>>})
        [] it.t = "dig" ->
             IF /\ pos + it.n <= Len(t)
                /\ \A k \in 0..(it.n - 1) : IsDigit(CharAt(t, pos + k))
             THEN MatchFrom(items, i + 1, t, pos + it.n)
             ELSE <<>>
        [] it.t = "alt" -> GroupTry(items, i, t, pos, 1)

\* alternatives a, a+1, ... of the group items[i], each followed by the rest
GroupTry(items, i, t, pos, a) ==
    IF a > Len(items[i].alts) THEN <<>>
    ELSE EndsTry(items, i, t, MatchFrom(items[i].alts[a], 1, t, pos), 1)
         \o GroupTry(items, i, t, pos, a + 1)

EndsTry(items, i, t, ends, j) ==
    IF j > Len(ends) THEN <<>>
    ELSE MatchFrom(items, i + 1, t, ends[j]) \o EndsTry(items, i, t, ends, j + 1)

\* FindIter stopping at the first match, as regex.search would
FindFirst(regex, t, from) ==
    LET starts == {s \in from..Len(t) : MatchFrom(regex, 1, t, s) # <<>>}
    IN IF starts = {} THEN <<>>
       ELSE LET s == CHOOSE x \in starts : \A y \in starts : x <= y
            IN <<[start |-> s, end |-> Head(MatchFrom(regex, 1, t, s))]>>

\* regex.finditer(text): leftmost, non-overlapping matches from offset `from`
RECURSIVE FindIter(_, _, _)
FindIter(regex, t, from) ==
    LET starts == {s \in from..Len(t) : MatchFrom(regex, 1, t, s) # <<>>}
    IN IF starts = {} THEN <<>>
       ELSE LET s == CHOOSE x \in starts : \A y \in starts : x <= y
                e == Head(MatchFrom(regex, 1, t, s))
            IN <<[start |-> s, end |-> e]>>
               \o FindIter(regex, t, IF e > s THEN e ELSE s + 1)

-----------------------------------------------------------------------------
(* The pattern catalog *)

\* the dict `categories` of _compile_patterns, in insertion order
categories == <<
    [category |-> "admission_of_fault", regexes |-> <<
        \* \bwe\s+(?:are|re|were)\s+responsible\b
        <<WordBoundary, Lit("we"), Space(1),
          Group(<<<<Lit("are")>>, <<Lit("re")>>, <<Lit("were")>>>>),
          Space(1), Lit("responsible"), WordBoundary>>,
        \* \bI\s+admit\b
        <<WordBoundary, Lit("I"), Space(1), Lit("admit"),
          WordBoundary>>>>],
    [category |-> "over_promise", regexes |-> <<
        \* \bguarantee\b
        <<WordBoundary, Lit("guarantee"), WordBoundary>>,
        \* \bwill\s+(?:ensure|cover|compensate)\b
        <<WordBoundary, Lit("will"), Space(1),
          Group(<<<<Lit("ensure")>>, <<Lit("cover")>>, <<Lit("compensate")>>>>),
          WordBoundary>>>>],
    [category |-> "hostile_language", regexes |-> <<
        \* \b(?:idiot|stupid|incompetent|useless)\b
        <<WordBoundary,
          Group(<<<<Lit("idiot")>>, <<Lit("stupid")>>, <<Lit("incompetent")>>,
               <<Lit("useless")>>>>),
          WordBoundary>>,
        \* \b(?:pay up|or else|you\s+must)\b
        <<WordBoundary,
          Group(<<<<Lit("pay up")>>, <<Lit("or else")>>, <<Lit("you"), Space(1), Lit("must")>>>>),
          WordBoundary>>>>],
    [category |-> "settlement_discussion", regexes |-> <<
        \* \b(?:settle|settlement|without prejudice)\b
        <<WordBoundary,
          Group(<<<<Lit("settle")>>, <<Lit("settlement")>>, <<Lit("without prejudice")>>>>),
          WordBoundary>>,
        \* \b(?:offer|demand)\s+to\s+settle\b
        <<WordBoundary,
          Group(<<<<Lit("offer")>>, <<Lit("demand")>>>>), Space(1),
          Lit("to"), Space(1), Lit("settle"), WordBoundary>>>>],
    [category |-> "defamation", regexes |-> <<
        \* \b(?:fraud|scam|criminal)\b
        <<WordBoundary,
          Group(<<<<Lit("fraud")>>, <<Lit("scam")>>, <<Lit("criminal")>>>>),
          WordBoundary>>>>],
    [category |-> "threat_of_action", regexes |-> <<
        \* \b(?:I will sue|we'll take you to court|legal action)\b
        <<WordBoundary,
          Group(<<<<Lit("I will sue")>>, <<Lit("we'll take you to court")>>,
               <<Lit("legal action")>>>>),
          WordBoundary>>>>],
    [category |-> "sensitive_data", regexes |-> <<
        \* SSN\s*\d{3}-\d{2}-\d{4}
        <<Lit("SSN"), Space(0), Digits(3), Lit("-"), Digits(2),
          Lit("-"), Digits(4)>>,
        \* \b(?:password|credential|confidential)\b
        <<WordBoundary,
          Group(<<<<Lit("password")>>, <<Lit("credential")>>, <<Lit("confidential")>>>>),
          WordBoundary>>>>],
    [category |-> "employment_discrimination", regexes |-> <<
        \* \b(?:fired because|due to your age|because of your race)\b
        <<WordBoundary,
          Group(<<<<Lit("fired because")>>, <<Lit("due to your age")>>,
               <<Lit("because of your race")>>>>),
          WordBoundary>>>>],
    [category |-> "antitrust", regexes |-> <<
        \* \b(?:fix prices|divide markets|collusion)\b
        <<WordBoundary,
          Group(<<<<Lit("fix prices")>>, <<Lit("divide markets")>>, <<Lit("collusion")>>>>),
          WordBoundary>>>>]>>

\* _compile_patterns(): one RiskPattern per category, each regex compiled
CompilePatterns ==
    [c \in 1..Len(categories) |->
        [category |-> categories[c].category,
         patterns |-> [r \in 1..Len(categories[c].regexes) |->
                          Compile(categories[c].regexes[r])]]]

-----------------------------------------------------------------------------
(* RiskPattern.match *)

\* Snippet without the clamp at the start of the text
SnippetUnclamped(text, start, end) ==
    LET snippet_start == start - SnippetContext
        snippet_end == Min(Len(text), end + SnippetContext)
    IN Strip(Slice(text, snippet_start, snippet_end))

\* the snippet of the match [start, end) of text
Snippet(text, start, end) ==
    LET snippet_start == Max(0, start - SnippetContext)
        snippet_end == Min(Len(text), end + SnippetContext)
    IN Strip(Slice(text, snippet_start, snippet_end))

\* the (snippet, start, end) of every match of one regex in text, in
\* finditer order; t is text case-folded
RegexMatches(regex, text, t) ==
    LET found == FindIter(regex, t, 0)
    IN [k \in 1..Len(found) |->
          [snippet |-> Snippet(text, found[k].start, found[k].end),
           start |-> found[k].start, end |-> found[k].end]]

\* MatchLoop with the regexes of the category taken last to first
RECURSIVE MatchLoopReversed(_, _, _, _)
MatchLoopReversed(patterns, r, text, t) ==
    IF r > Len(patterns) THEN <<>>
    ELSE MatchLoopReversed(patterns, r + 1, text, t)
         \o RegexMatches(patterns[r], text, t)

\* `for regex in self.patterns` from the r-th on
RECURSIVE MatchLoop(_, _, _, _)
MatchLoop(patterns, r, text, t) ==
    IF r > Len(patterns) THEN <<>>
    ELSE RegexMatches(patterns[r], text, t) \o MatchLoop(patterns, r + 1, text, t)

\* self.match(text)
PatternMatch(self, text) == MatchLoop(self.patterns, 1, text, Lower(text))

-----------------------------------------------------------------------------
(* analyze_email *)

\* Python values held by the email dict
PyStr(s) == [py |-> "str", s |-> s]
PyNone == [py |-> "None"]
PyBool(b) == [py |-> "bool", b |-> b]

Truthy(v) ==
    CASE v.py = "str" -> v.s # ""
      [] v.py = "None" -> FALSE
      [] v.py = "bool" -> v.b

\* f"{v}"
Format(v) ==
    CASE v.py = "str" -> v.s
      [] v.py = "None" -> "None"
      [] v.py = "bool" -> IF v.b THEN "True" ELSE "False"

Get(d, key, default) == IF key \in DOMAIN d THEN d[key] ELSE default   \* d.get
Or(v, w) == IF Truthy(v) THEN v ELSE w                                  \* v or w

Subject(e) == Or(Get(e, "subject", PyStr("")), PyStr(""))
Body(e) == Or(Get(e, "body", PyStr("")), PyStr(""))
CombinedText(e) == Format(Subject(e)) \o "\n" \o Format(Body(e))

\* Shorten with the threshold off by one
ShortenFromMax(snippet) ==
    IF Len(snippet) >= SnippetMax
    THEN Slice(snippet, 0, SnippetMax) \o Ellipsis
    ELSE snippet

\* the snippet as emitted: shortened if extremely long
Shorten(snippet) ==
    IF Len(snippet) > SnippetMax
    THEN Slice(snippet, 0, SnippetMax) \o Ellipsis
    ELSE snippet

\* f"[{pattern.category}] {snippet}"
Entry(category, snippet) == "[" \o category \o "] " \o snippet

Entries(category, ms) ==
    [k \in 1..Len(ms) |-> Entry(category, Shorten(ms[k].snippet))]

\* RiskScore as a sum
RiskScoreSum(count, found) == count + Cardinality(ToSet(found))

\* RiskScore counting the categories beyond the first
RiskScoreBeyondFirst(count, found) == count * (Cardinality(ToSet(found)) - 1)

\* RiskScore with `or 1` applied to the product
RiskScoreOrOne(count, found) ==
    LET product == count * Cardinality(ToSet(found))
    IN IF product # 0 THEN product ELSE 1

RiskScore(count, found) ==
    LET n == Cardinality(ToSet(found))
    IN count * (IF n # 0 THEN n ELSE 1)

\* RiskCategories in order of discovery
RiskCategoriesUnsorted(found) == Join(", ", found)

RiskCategories(found) == Join(", ", Sorted(ToSet(found)))

FlaggedSnippets(snips) == Join("; ", snips)

-----------------------------------------------------------------------------
(* State machine *)

NoEmail == [k \in {} |-> PyNone]
NoResult == [risk_score |-> 0, risk_categories |-> "", num_flags |-> 0,
             flagged_snippets |-> ""]

Init ==
    /\ _PATTERNS = CompilePatterns
    /\ pc = [p \in Calls |-> "idle"]
    /\ email = [p \in Calls |-> NoEmail]
    /\ combined_text = [p \in Calls |-> ""]
    /\ idx = [p \in Calls |-> 0]
    /\ matches = [p \in Calls |-> <<>>]
    /\ categories_found = [p \in Calls |-> <<>>]
    /\ snippets = [p \in Calls |-> <<>>]
    /\ flag_count = [p \in Calls |-> 0]
    /\ result = [p \in Calls |-> NoResult]

\* analyze_email(e) is entered: the text is built, the accumulators are empty
Call(p, e) ==
    /\ pc[p] = "idle"
    /\ pc' = [pc EXCEPT ![p] = "loop"]
    /\ email' = [email EXCEPT ![p] = e]
    /\ combined_text' = [combined_text EXCEPT ![p] = CombinedText(e)]
    /\ idx' = [idx EXCEPT ![p] = 1]
    /\ matches' = [matches EXCEPT ![p] = <<>>]
    /\ categories_found' = [categories_found EXCEPT ![p] = <<>>]
    /\ snippets' = [snippets EXCEPT ![p] = <<>>]
    /\ flag_count' = [flag_count EXCEPT ![p] = 0]
    /\ UNCHANGED <<_PATTERNS, result>>

\* MatchCategory taking its pattern off the front of the shared catalog
MatchCategoryConsuming(p) ==
    /\ pc[p] = "loop"
    /\ idx[p] <= Len(CompilePatterns)
    /\ _PATTERNS # <<>>
    /\ LET pattern == Head(_PATTERNS)
           ms == PatternMatch(pattern, combined_text[p])
       IN /\ matches' = [matches EXCEPT ![p] = ms]
          /\ IF ms # <<>>
             THEN /\ categories_found' =
                       [categories_found EXCEPT ![p] = Append(@, pattern.category)]
                  /\ flag_count' = [flag_count EXCEPT ![p] = @ + Len(ms)]
                  /\ snippets' =
                       [snippets EXCEPT ![p] = @ \o Entries(pattern.category, ms)]
             ELSE UNCHANGED <<categories_found, flag_count, snippets>>
    /\ _PATTERNS' = Tail(_PATTERNS)
    /\ idx' = [idx EXCEPT ![p] = @ + 1]
    /\ UNCHANGED <<pc, email, combined_text, result>>

\* one iteration of `for pattern in _PATTERNS`
MatchCategory(p) ==
    /\ pc[p] = "loop"
    /\ idx[p] <= Len(_PATTERNS)
    /\ LET pattern == _PATTERNS[idx[p]]
           ms == PatternMatch(pattern, combined_text[p])
       IN /\ matches' = [matches EXCEPT ![p] = ms]
          /\ IF ms # <<>>
             THEN /\ categories_found' =
                       [categories_found EXCEPT ![p] = Append(@, pattern.category)]
                  /\ flag_count' = [flag_count EXCEPT ![p] = @ + Len(ms)]
                  /\ snippets' =
                       [snippets EXCEPT ![p] = @ \o Entries(pattern.category, ms)]
             ELSE UNCHANGED <<categories_found, flag_count, snippets>>
    /\ idx' = [idx EXCEPT ![p] = @ + 1]
    /\ UNCHANGED <<_PATTERNS, pc, email, combined_text, result>>

\* the loop is over: the score is computed and the dict returned
Return(p) ==
    /\ pc[p] = "loop"
    /\ idx[p] > Len(_PATTERNS)
    /\ result' = [result EXCEPT ![p] =
          [risk_score |-> RiskScore(flag_count[p], categories_found[p]),
           risk_categories |-> RiskCategories(categories_found[p]),
           num_flags |-> flag_count[p],
           flagged_snippets |-> FlaggedSnippets(snippets[p])]]
    /\ pc' = [pc EXCEPT ![p] = "done"]
    /\ UNCHANGED <<_PATTERNS, email, combined_text, idx, matches,
                   categories_found, snippets, flag_count>>

\* the caller has taken the result; the call's frame is gone
Respond(p) ==
    /\ pc[p] = "done"
    /\ pc' = [pc EXCEPT ![p] = "idle"]
    /\ email' = [email EXCEPT ![p] = NoEmail]
    /\ combined_text' = [combined_text EXCEPT ![p] = ""]
    /\ idx' = [idx EXCEPT ![p] = 0]
    /\ matches' = [matches EXCEPT ![p] = <<>>]
    /\ categories_found' = [categories_found EXCEPT ![p] = <<>>]
    /\ snippets' = [snippets EXCEPT ![p] = <<>>]
    /\ flag_count' = [flag_count EXCEPT ![p] = 0]
    /\ result' = [result EXCEPT ![p] = NoResult]
    /\ UNCHANGED _PATTERNS

\* the record the /analyze endpoint builds from a validated request
Record(subject, body) ==
    [date |-> PyStr(""), from |-> PyStr(""), to |-> PyStr(""),
     subject |-> PyStr(subject), body |-> PyStr(body),
     has_attachments |-> PyBool(FALSE), source_path |-> PyStr("")]

-----------------------------------------------------------------------------
(* Inputs *)

RECURSIVE Spaces(_)
Spaces(n) ==
    IF n = 0 THEN ""
    ELSE IF n = 1 THEN " "
    ELSE Spaces(n \div 2) \o Spaces(n - (n \div 2))

\* "I", a gap, "admit": a match SnippetMax characters long
LongAdmit == "I" \o Spaces(SnippetMax - 6) \o "admit"

\* "Offer to", a gap, "settle": two matches whose snippets differ
WideOffer == "Offer to" \o Spaces(SnippetContext + 5) \o "settle"

Fragments ==
    << "idiot", " pay up or else", "guarantee", "ment", "!",
       "SSN 123-45-6789", WideOffer, "We  ARE\nresponsible", LongAdmit >>

RECURSIVE Concat(_)
Concat(fs) == IF fs = <<>> THEN "" ELSE Fragments[Head(fs)] \o Concat(Tail(fs))

Bodies ==
    {Concat(fs) : fs \in UNION {[1..n -> 1..Len(Fragments)] : n \in 0..MaxFrags}}

Subjects == {"", "Legal action; fraud"}

\* dicts whose subject and body are each absent, None or a short str
Sparse ==
    LET values == {PyNone, PyStr(""), PyStr("You idiot")}
    IN {[subject |-> s, body |-> b] : s \in values, b \in values}
       \cup {[subject |-> s] : s \in values}
       \cup {[body |-> b] : b \in values}
       \cup {NoEmail}

Emails ==
    {[subject |-> PyStr(s), body |-> PyStr(b)] : s \in Subjects, b \in Bodies}
    \cup Sparse

Next ==
    \/ \E e \in Emails : Call(1, e)
    \/ MatchCategory(1)
    \/ Return(1)
    \/ Respond(1)

Spec == Init /\ [][Next]_vars

\* requests the endpoint serves side by side
RequestSubjects == {"Urgent"}
RequestBodies ==
    {"I admit we are responsible for this and will ensure compensation.",
     "You idiot, pay up or else"}

NextConc ==
    \E p \in Calls :
        \/ \E s \in RequestSubjects, b \in RequestBodies : Call(p, Record(s, b))
        \/ MatchCategory(p)
        \/ Return(p)
        \/ Respond(p)

SpecConc == Init /\ [][NextConc]_vars

-----------------------------------------------------------------------------
(* What the claims are stated over *)

Running(p) == pc[p] \in {"loop", "done"}

\* every match of every regex of the catalog in text, as
\* [c, r, start, end]: category c, its r-th regex, the span matched
AllMatches(text) ==
    LET t == Lower(text)
    IN UNION {
         UNION {
           LET found == FindIter(CompilePatterns[c].patterns[r], t, 0)
           IN {[c |-> c, r |-> r, start |-> found[k].start, end |-> found[k].end]
                 : k \in 1..Len(found)}
           : r \in 1..Len(categories[c].regexes)}
         : c \in 1..Len(categories)}

\* catalog order: category, then regex within it, then position
Before(m, n) ==
    \/ m.c < n.c
    \/ m.c = n.c /\ m.r < n.r
    \/ m.c = n.c /\ m.r = n.r /\ m.start < n.start

\* the k-th of the set M of matches in catalog order
Kth(M, k) == CHOOSE m \in M : Cardinality({n \in M : Before(n, m)}) = k - 1

\* s.split(sep)
RECURSIVE Split(_, _)
Split(s, sep) ==
    LET hits == {i \in 0..(Len(s) - Len(sep)) : Slice(s, i, i + Len(sep)) = sep}
    IN IF hits = {} THEN <<s>>
       ELSE LET i == CHOOSE x \in hits : \A y \in hits : x <= y
            IN <<Slice(s, 0, i)>> \o Split(Slice(s, i + Len(sep), Len(s)), sep)

\* risk_categories read back as a list of identifiers
ParseCategories(s) == IF s = "" THEN <<>> ELSE Split(s, ", ")

\* the identifier between "[" and the first "]" of an entry of snippets
EntryCategory(entry) ==
    LET close == CHOOSE i \in 1..Len(entry) :
                    /\ CharAt(entry, i) = "]"
                    /\ \A j \in 1..(i - 1) : CharAt(entry, j) # "]"
    IN Slice(entry, 1, close)

\* an entry of snippets without its "[category] " prefix
EntryText(entry) == Slice(entry, Len(EntryCategory(entry)) + 3, Len(entry))

\* offsets at which word occurs in text, case ignored
Occurrences(text, word) ==
    LET t == Lower(text)
        w == Lower(word)
    IN {i \in 0..(Len(text) - Len(word)) : Slice(t, i, i + Len(word)) = w}

Contains(text, word) == Occurrences(text, word) # {}

\* offset i of text lies inside a run of word characters
MidWord(text, i) ==
    /\ 0 < i /\ i < Len(text)
    /\ IsWord(CharAt(text, i - 1)) /\ IsWord(CharAt(text, i))

\* position of hostile_language in the catalog
Hostile == CHOOSE c \in 1..Len(categories) : categories[c].category = "hostile_language"

\* the call has just run the hostile_language iteration of the loop
AfterHostile(p) == pc[p] = "loop" /\ idx[p] = Hostile + 1

HostileEntries(p) ==
    {k \in 1..Len(snippets[p]) : EntryCategory(snippets[p][k]) = "hostile_language"}

\* what the categories before hostile_language added to flag_count
FlagsBeforeHostile(p) ==
    Cardinality({m \in AllMatches(combined_text[p]) : m.c < Hostile})

NoOtherHostileTerm(text) ==
    /\ \A w \in {"stupid", "incompetent", "useless"} : ~Contains(text, w)
    /\ \A i \in Occurrences(text, "you") :
          ~(/\ SpaceRun(text, i + 3) > 0
            /\ (i + 3 + SpaceRun(text, i + 3)) \in Occurrences(text, "must"))

-----------------------------------------------------------------------------
(* Claims *)

\* C1: for every input, the risk_score returned is num_flags times
\* max(1, the number of distinct categories with at least one match).
C1_RiskScore ==
    \A p \in Calls : pc[p] = "done" =>
        LET cats == {m.c : m \in AllMatches(combined_text[p])}
        IN result[p].risk_score = result[p].num_flags * Max(1, Cardinality(cats))

\* a call returned 3 flags in 2 categories: score 6
C1_Witness ==
    \E p \in Calls :
        /\ pc[p] = "done"
        /\ result[p].num_flags = 3
        /\ Cardinality({m.c : m \in AllMatches(combined_text[p])}) = 2
        /\ result[p].risk_score = 6

\* C2 as stated: an input containing "idiot" and "pay up or else", and no
\* other hostile_language term, gets exactly 2 hostile_language flags, in
\* num_flags and in flagged_snippets.
C2_TwoHostileFlags ==
    \A p \in Calls :
        (/\ AfterHostile(p)
         /\ Contains(combined_text[p], "idiot")
         /\ Contains(combined_text[p], "pay up or else")
         /\ NoOtherHostileTerm(combined_text[p]))
        => /\ Len(matches[p]) = 2
           /\ flag_count[p] - FlagsBeforeHostile(p) = 2
           /\ Cardinality(HostileEntries(p)) = 2

\* "idiot" and "pay up or else" each occur once in text, as whole words
OnceEachWholeWord(text) ==
    /\ \E i \in Occurrences(text, "idiot") :
          /\ Occurrences(text, "idiot") = {i}
          /\ ~MidWord(text, i) /\ ~MidWord(text, i + 5)
    /\ \E i \in Occurrences(text, "pay up or else") :
          /\ Occurrences(text, "pay up") = {i}
          /\ Occurrences(text, "or else") = {i + 7}
          /\ ~MidWord(text, i) /\ ~MidWord(text, i + 14)

\* C2 amended: when "idiot" and "pay up or else" each occur once, as whole
\* words, and no other hostile_language term occurs, hostile_language gets
\* exactly 3 flags, in num_flags and in flagged_snippets: "idiot" from its
\* first pattern, "pay up" and "or else" from its second.
C2_ThreeHostileFlags ==
    \A p \in Calls :
        (/\ AfterHostile(p)
         /\ OnceEachWholeWord(combined_text[p])
         /\ NoOtherHostileTerm(combined_text[p]))
        => LET matched == [k \in 1..Len(matches[p]) |->
                              Lower(Slice(combined_text[p], matches[p][k].start,
                                          matches[p][k].end))]
           IN /\ matched = <<"idiot", "pay up", "or else">>
              /\ flag_count[p] - FlagsBeforeHostile(p) = 3
              /\ Cardinality(HostileEntries(p)) = 3

\* the hostile_language iteration has run on such an input
C2_Witness ==
    \E p \in Calls :
        /\ AfterHostile(p)
        /\ OnceEachWholeWord(combined_text[p])
        /\ NoOtherHostileTerm(combined_text[p])
        /\ Len(matches[p]) = 3

\* C3 as stated: no pattern of any category reports a match that starts or
\* ends in the middle of a longer word, the SSN pattern included.
C3_WordBoundaries ==
    \A p \in Calls : Running(p) =>
        \A k \in 1..Len(matches[p]) :
            /\ ~MidWord(combined_text[p], matches[p][k].start)
            /\ ~MidWord(combined_text[p], matches[p][k].end)

\* C4: risk_categories read back as a set is the set of the categories
\* prefixed to the entries of flagged_snippets, and it is rendered in
\* ascending order without duplicates.
C4_Categories ==
    \A p \in Calls : pc[p] = "done" =>
        LET parsed == ParseCategories(result[p].risk_categories)
        IN /\ ToSet(parsed) =
                {EntryCategory(snippets[p][k]) : k \in 1..Len(snippets[p])}
           /\ \A i \in 1..Len(parsed) : \A j \in (i + 1)..Len(parsed) :
                StrLess(parsed[i], parsed[j])

\* two categories found in the order over_promise, hostile_language and
\* rendered in the other
C4_Witness ==
    \E p \in Calls :
        /\ pc[p] = "done"
        /\ categories_found[p] = <<"over_promise", "hostile_language">>
        /\ result[p].risk_categories = "hostile_language, over_promise"

\* C5: flagged_snippets holds one "[category] snippet" entry per match,
\* num_flags in all, in catalog order: by category, then by pattern within
\* the category, then by position within the pattern.
C5_SnippetOrder ==
    \A p \in Calls : pc[p] = "done" =>
        LET text == combined_text[p]
            M == AllMatches(text)
        IN /\ Len(snippets[p]) = Cardinality(M)
           /\ result[p].num_flags = Cardinality(M)
           /\ \A k \in 1..Len(snippets[p]) :
                LET m == Kth(M, k)
                IN snippets[p][k] =
                     "[" \o categories[m.c].category \o "] "
                     \o Shorten(Snippet(text, m.start, m.end))
           /\ result[p].flagged_snippets = Join("; ", snippets[p])

\* a category whose second pattern matched before the place where its
\* first pattern matched, with a snippet of its own
C5_Witness ==
    \E p \in Calls :
        /\ pc[p] = "done"
        /\ Len(snippets[p]) = 2
        /\ snippets[p][1] # snippets[p][2]
        /\ \E m, n \in AllMatches(combined_text[p]) :
              m.c = n.c /\ m.r < n.r /\ m.start > n.start

\* C6: a snippet longer than 200 characters is emitted as its first 200
\* characters and one ellipsis, 201 characters after the category prefix;
\* a snippet of at most 200 characters is emitted unchanged.
C6_Truncation ==
    \A p \in Calls : Running(p) =>
        \A k \in 1..Len(matches[p]) :
            LET snippet == matches[p][k].snippet
                entry == snippets[p][Len(snippets[p]) - Len(matches[p]) + k]
                text == EntryText(entry)
            IN IF Len(snippet) > 200
               THEN /\ Len(text) = 201
                    /\ SubSeq(text, 1, 200) = SubSeq(snippet, 1, 200)
                    /\ SubSeq(text, 201, 201) = Ellipsis
               ELSE text = snippet

\* a snippet of 201 characters was emitted shortened
C6_Witness ==
    \E p \in Calls :
        /\ Running(p)
        /\ \E k \in 1..Len(matches[p]) :
              /\ Len(matches[p][k].snippet) = 201
              /\ Len(snippets[p][Len(snippets[p]) - Len(matches[p]) + k])
                   = Len("[admission_of_fault] ") + 201

IsEmpty(e, key) ==
    \/ key \notin DOMAIN e
    \/ e[key].py = "None"
    \/ e[key].py = "str" /\ e[key].s = ""

\* C7: when subject and body are each empty, absent or None, the call
\* returns risk_score 0, risk_categories "", num_flags 0, flagged_snippets "".
C7_EmptyInput ==
    \A p \in Calls :
        (pc[p] = "done" /\ IsEmpty(email[p], "subject") /\ IsEmpty(email[p], "body"))
        => result[p] = [risk_score |-> 0, risk_categories |-> "",
                        num_flags |-> 0, flagged_snippets |-> ""]

\* a call on a dict with a None subject and no body has returned
C7_Witness ==
    \E p \in Calls :
        /\ pc[p] = "done"
        /\ DOMAIN email[p] = {"subject"}
        /\ email[p]["subject"].py = "None"

\* what analyze_email(e) returns when it runs from start to end on its own
RECURSIVE AloneFrom(_, _, _, _, _)
AloneFrom(text, i, found, snips, count) ==
    IF i > Len(CompilePatterns)
    THEN [risk_score |-> RiskScore(count, found),
          risk_categories |-> RiskCategories(found),
          num_flags |-> count,
          flagged_snippets |-> FlaggedSnippets(snips)]
    ELSE LET pattern == CompilePatterns[i]
             ms == PatternMatch(pattern, text)
         IN IF ms # <<>>
            THEN AloneFrom(text, i + 1, Append(found, pattern.category),
                           snips \o Entries(pattern.category, ms), count + Len(ms))
            ELSE AloneFrom(text, i + 1, found, snips, count)

Alone(e) == AloneFrom(CombinedText(e), 1, <<>>, <<>>, 0)

\* C8: however the calls interleave, the catalog stays as built at startup,
\* each call returns what it would return run alone on its input, and two
\* calls with the same input return the same output.
C8_Isolation ==
    /\ _PATTERNS = CompilePatterns
    /\ \A p \in Calls : pc[p] = "done" => result[p] = Alone(email[p])
    /\ \A p, q \in Calls :
          (pc[p] = "done" /\ pc[q] = "done" /\ email[p] = email[q])
          => result[p] = result[q]

\* two calls on the same input have both returned flags
C8_Witness ==
    \E p, q \in Calls :
        /\ p # q
        /\ pc[p] = "done" /\ pc[q] = "done"
        /\ email[p] = email[q]
        /\ result[p].num_flags > 0

\* C9: num_flags >= 0 and risk_score >= 0, and risk_score = 0 exactly when
\* num_flags = 0.
C9_NonNegative ==
    \A p \in Calls : pc[p] = "done" =>
        /\ result[p].num_flags >= 0
        /\ result[p].risk_score >= 0
        /\ (result[p].risk_score = 0) <=> (result[p].num_flags = 0)

\* a call has returned flags of a single category
C9_Witness ==
    \E p \in Calls :
        /\ pc[p] = "done"
        /\ result[p].num_flags > 0
        /\ Len(categories_found[p]) = 1

\* C10: the snippet of a match [start, end) is the text from
\* max(0, start - 40) to min(len, end + 40) with the whitespace at its two
\* ends removed; that window lies inside the text and holds the match.
C10_SnippetWindow ==
    \A p \in Calls : Running(p) =>
        \A k \in 1..Len(matches[p]) :
            LET text == combined_text[p]
                m == matches[p][k]
                lo == IF m.start - 40 > 0 THEN m.start - 40 ELSE 0
                hi == IF m.end + 40 < Len(text) THEN m.end + 40 ELSE Len(text)
            IN /\ 0 <= lo /\ lo <= m.start /\ m.start < m.end
               /\ m.end <= hi /\ hi <= Len(text)
               /\ \E i \in lo..m.start :
                     /\ ~IsSpace(CharAt(text, i))
                     /\ \A x \in lo..(i - 1) : IsSpace(CharAt(text, x))
                     /\ \E j \in m.end..hi :
                           /\ ~IsSpace(CharAt(text, j - 1))
                           /\ \A x \in j..(hi - 1) : IsSpace(CharAt(text, x))
                           /\ m.snippet = SubSeq(text, i + 1, j)

\* a match more than 40 characters into the text whose window began with
\* whitespace that was removed
C10_Witness ==
    \E p \in Calls :
        /\ Running(p)
        /\ \E k \in 1..Len(matches[p]) :
              /\ matches[p][k].start > 40
              /\ IsSpace(CharAt(combined_text[p], matches[p][k].start - 40))

====
